---- MODULE Spec2Model ----
(***************************************************************************)
(* Portify: the authentication / OTP state machine and the asset endpoints *)
(* of the two backend variants of the repository:                          *)
(*   "server"  = src/Backend/server.js (OTP returned in the response)      *)
(*   "mailer"  = the Express backend at the end of                         *)
(*               src/Frontend/assets/js/dashboard.js (OTP sent by e-mail,  *)
(*               two-step login)                                           *)
(* Every request handler is a process that runs from one await on the      *)
(* store to the next; the store (MongoDB through mongoose) executes each   *)
(* query or save atomically.                                               *)
(***************************************************************************)
EXTENDS Integers, Sequences, FiniteSets, TLC

VARIABLES variant, users, assets, now, req

vars == <<variant, users, assets, now, req>>

(***************************************************************************)
(* Bounds of the model.                                                    *)
(***************************************************************************)
MaxUsers == 2        \* documents in the users collection
MaxAssets == 2       \* documents ever inserted in the assets collection
MaxTicks == 2        \* clock steps
RandomSteps == 1     \* Math.random() takes the values k / RandomSteps, k < RandomSteps
ReissueSteps == 2    \* the same, where two codes of one account must differ
OtpSamples == 10     \* the same, where the range of the codes is sampled

\* the request handlers that run at the same time
Procs == {"r1", "r2"}

Server == "server"
Mailer == "mailer"

(***************************************************************************)
(* JavaScript values: a type tag and a payload (strings are sequences of   *)
(* characters, so that trim and toLowerCase act on them).                  *)
(***************************************************************************)
Undef == [t |-> "undefined", v |-> <<>>]
Null == [t |-> "null", v |-> <<>>]
Str(s) == [t |-> "string", v |-> s]
Num(n) == [t |-> "number", v |-> <<n>>]
DateAt(ms) == [t |-> "date", v |-> <<ms>>]

\* a === b
StrictEq(a, b) == a.t = b.t /\ a.v = b.v

\* !a
Falsy(a) == a.t \in {"undefined", "null"} \/ (a.t = "string" /\ a.v = <<>>)

\* String.prototype.toLowerCase on the characters the inputs use
LowerChar(c) == IF c = "A" THEN "a" ELSE IF c = "U" THEN "u" ELSE c

ToLowerCase(s) == [i \in 1..Len(s) |-> LowerChar(s[i])]

RECURSIVE TrimStart(_)
TrimStart(s) == IF s # <<>> /\ Head(s) = " " THEN TrimStart(Tail(s)) ELSE s

RECURSIVE TrimEnd(_)
TrimEnd(s) == IF s # <<>> /\ s[Len(s)] = " " THEN TrimEnd(SubSeq(s, 1, Len(s) - 1)) ELSE s

\* String.prototype.trim
Trim(s) == TrimEnd(TrimStart(s))

\* email.trim().toLowerCase()
NormalizeEmail(e) == Str(ToLowerCase(Trim(e.v)))

(***************************************************************************)
(* The clock: Date.now() in milliseconds, advancing in steps of TickMs.    *)
(***************************************************************************)
\* 10 * 60 * 1000: the life time of an OTP
OtpTtlMs == 10 * 60 * 1000

\* the clock is observed once per life time of an OTP
TickMs == OtpTtlMs

(***************************************************************************)
(* OTP generation: Math.floor(100000 + Math.random() * 900000).toString()  *)
(***************************************************************************)
RECURSIVE Digits(_)
Digits(n) == IF n < 10 THEN <<n>> ELSE Append(Digits(n \div 10), n % 10)

\* Number.prototype.toString
NumToString(n) == Str(Digits(n))

\* mutant: Math.floor(r * 1000000)
OtpNumberNoOffset(k, steps) == (k * 1000000) \div steps

\* Math.floor(100000 + r * 900000) for r = k / steps
OtpNumberAt(k, steps) == (100000 * steps + k * 900000) \div steps

\* Math.floor(100000 + r * 900000) for r = k / RandomSteps
OtpNumber(k) == OtpNumberAt(k, RandomSteps)

GenerateOtp(k) == NumToString(OtpNumber(k))

RandomDraws == 0..(RandomSteps - 1)

\* the codes the handlers draw
DrawnCodes == {GenerateOtp(k) : k \in RandomDraws}

(***************************************************************************)
(* bcrypt: the hash of a password, and compare.                            *)
(***************************************************************************)
BcryptHash(pw) == [t |-> "bcrypt", v |-> pw.v]

\* mutant: compare accepts every password
BcryptCompareAnyPassword(pw, hash) == hash.t = "bcrypt"

BcryptCompare(pw, hash) == hash.t = "bcrypt" /\ hash.v = pw.v

(***************************************************************************)
(* The users collection: a sequence of documents, _id = position.          *)
(***************************************************************************)
NoUser ==
  [id |-> 0, username |-> Undef, email |-> Undef, password |-> Undef,
   otp |-> Undef, otpExpires |-> Undef, isVerified |-> FALSE]

UserDoc(id, username, email, password, otp, otpExpires) ==
  [id |-> id, username |-> username, email |-> email, password |-> password,
   otp |-> otp, otpExpires |-> otpExpires, isVerified |-> FALSE]

\* the first document that satisfies match, or NoUser
FindFirst(coll, match(_)) ==
  IF \E i \in 1..Len(coll) : match(coll[i])
  THEN coll[CHOOSE i \in 1..Len(coll) :
              match(coll[i]) /\ \A j \in 1..(i - 1) : ~match(coll[j])]
  ELSE NoUser

\* User.findOne({ email })
FindByEmail(coll, email) ==
  LET match(u) == StrictEq(u.email, email) IN FindFirst(coll, match)

\* the unique indexes of the users collection: which of them a new document violates
DupEmail(coll, doc) == \E i \in 1..Len(coll) : StrictEq(coll[i].email, doc.email)

DupUsername(coll, doc) == \E i \in 1..Len(coll) : StrictEq(coll[i].username, doc.username)

(***************************************************************************)
(* Session tokens: the claims jwt.sign puts in the token.                  *)
(***************************************************************************)
NoToken == [userId |-> 0, email |-> Undef]

SignToken(user) ==
  [userId |-> user.id, email |-> IF variant = Mailer THEN user.email ELSE Undef]

\* the Authorization header of a request: absent, a token that jwt.verify rejects
\* (bad signature or expired), or a token that it accepts
NoAuth == [t |-> "none", claims |-> NoToken]

BadAuth == [t |-> "rejected", claims |-> NoToken]

Bearer(token) == [t |-> "bearer", claims |-> token]

(***************************************************************************)
(* A request handler: its inputs, its locals and its response.             *)
(***************************************************************************)
Idle ==
  [pc |-> "idle", kind |-> "none",
   email |-> Undef, username |-> Undef, password |-> Undef, otp |-> Undef,
   snap |-> NoUser, uid |-> 0, genOtp |-> Undef, genExp |-> Undef,
   status |-> 0, msg |-> "", token |-> NoToken, bodyOtp |-> Undef, purpose |-> Undef,
   auth |-> NoAuth, aid |-> 0, seen |-> {},
   after |-> {}, reissued |-> FALSE]

\* res.status(status).json({ message: msg }): the handler ends, the document it read
\* is dropped with its other locals
Respond(r, status, msg) ==
  [r EXCEPT !.pc = "done", !.status = status, !.msg = msg, !.snap = NoUser, !.after = {}]

CanStart(p) == req[p].pc \in {"idle", "done"}

\* Express hands a new request r to handler p. History: while it runs, r.after is the
\* set of handlers whose present response was sent before this request arrived.
Start(p, r) ==
  [q \in Procs |->
     IF q = p
     THEN IF r.pc = "done" THEN r
          ELSE [r EXCEPT !.after = {d \in Procs \ {p} : req[d].pc = "done"}]
     ELSE [req[q] EXCEPT !.after = @ \ {p}]]

\* History: handler p issues an OTP for account id; rq[q].reissued records, for the
\* response handler q holds about that account, that an OTP was issued after it.
MarkReissued(rq, p, id) ==
  [q \in Procs |->
     IF q # p /\ rq[q].pc = "done" /\ rq[q].uid = id
     THEN [rq[q] EXCEPT !.reissued = TRUE]
     ELSE rq[q]]

\* how a filter with the values vs may treat undefined (see FilterMatches)
StripChoices(vs) == IF \E v \in vs : v.t = "undefined" THEN BOOLEAN ELSE {FALSE}

(***************************************************************************)
(* Request bodies the clients send.                                        *)
(***************************************************************************)
EmailLower == Str(<<"a", "@", "x">>)
EmailUpper == Str(<<"A", "@", "x">>)
EmailPadded == Str(<<"a", "@", "x", " ">>)
EmailOther == Str(<<"b", "@", "x">>)

UserU == Str(<<"u">>)
UserV == Str(<<"v">>)

Pass1 == Str(<<"p", "1">>)
Pass2 == Str(<<"p", "2">>)

\* a code that differs from the lowest code in its last digit
Mistyped == NumToString(OtpNumber(0) + 1)

\* the OTP field of a verify-otp body: a code that can be issued, a mistyped code,
\* or nothing
OtpInputs == {GenerateOtp(k) : k \in RandomDraws} \cup {Mistyped, Undef}

\* registration bodies that vary the spelling of one identity
SpellingInputs ==
  {[email |-> e, username |-> u, password |-> Pass1] :
     e \in {EmailLower, EmailUpper, EmailPadded}, u \in {UserU, UserV}}
    \cup {[email |-> Undef, username |-> UserU, password |-> Pass1],
          [email |-> EmailLower, username |-> Undef, password |-> Pass1],
          [email |-> EmailLower, username |-> UserU, password |-> Undef]}

\* registration bodies of one person
PersonInputs == {[email |-> EmailUpper, username |-> UserU, password |-> Pass1]}

\* the e-mails and passwords the person types to verify and to log in
PersonEmails == {EmailUpper}

\* the e-mail of the person in two spellings
SpelledEmails == {EmailLower, EmailUpper}

PersonPasswords == {Pass1, Pass2}

\* the purpose of a verify-otp body
PurposeRegister == Str(<<"register">>)
PurposeLogin == Str(<<"login">>)

PurposeInputs == {PurposeRegister, PurposeLogin}

\* a client that sends no purpose
NoPurpose == {Undef}

(***************************************************************************)
(* Initial state: an empty database, no request in flight.                 *)
(***************************************************************************)
Init ==
  /\ variant \in {Server, Mailer}
  /\ users = <<>>
  /\ assets = <<>>
  /\ now = 0
  /\ req = [p \in Procs |-> Idle]

\* the clock advances
Tick ==
  /\ now < MaxTicks * TickMs
  /\ now' = now + TickMs
  /\ UNCHANGED <<variant, users, assets, req>>

(***************************************************************************)
(* POST /auth/register                                                     *)
(***************************************************************************)
\* one condition { field: value } of a query filter. A value of undefined is either
\* sent as null (no stored e-mail or user name of a query that uses it is null) or
\* dropped from the filter, which then matches every document: the mongoose /
\* driver version decides, so strip is free.
FilterMatches(stored, value, strip) ==
  IF value.t = "undefined" THEN strip ELSE StrictEq(stored, value)

\* User.findOne({ $or: [{ email }, { username }] })                    (server)
\* User.findOne({ $or: [{ email }, ...(username ? [{ username }] : [])] }) (mailer)
FindExisting(coll, email, username, strip) ==
  LET match(u) ==
        \/ FilterMatches(u.email, email, strip)
        \/ /\ variant = Server \/ ~Falsy(username)
           /\ FilterMatches(u.username, username, strip)
  IN FindFirst(coll, match)

\* the 400 response of the pre-check
ExistingMessage(existing, email) ==
  IF variant = Server THEN "User with this email or username already exists"
  ELSE IF StrictEq(existing.email, email) THEN "Email already registered."
  ELSE "Username already taken."

\* inserts that handlers past the pre-check may still perform
PendingInserts == Cardinality({q \in Procs : req[q].pc = "reg_save"})

\* the handler up to the answer of findOne
RegisterFind(p, bodies) ==
  /\ CanStart(p)
  /\ Len(users) + PendingInserts < MaxUsers
  /\ \E body \in bodies :
     \E strip \in StripChoices({body.email, body.username}) :
       LET email == body.email
           username == body.username
           password == body.password
           r == [Idle EXCEPT !.kind = "register", !.email = email,
                             !.username = username, !.password = password]
           existing == FindExisting(users, email, username, strip)
       IN req' = Start(p,
            IF variant = Mailer /\ (Falsy(email) \/ Falsy(password))
            THEN Respond(r, 400, "Please enter all fields.")
            ELSE IF existing.id # 0
            THEN Respond(r, 400, ExistingMessage(existing, email))
            ELSE [r EXCEPT !.pc = "reg_save"])
  /\ UNCHANGED <<variant, users, assets, now>>

\* new User({...}) of the server variant
ServerNewUser(id, r, otp, otpExpires) ==
  UserDoc(id, Str(Trim(r.username.v)), NormalizeEmail(r.email),
          BcryptHash(r.password), otp, otpExpires)

\* new User({...}) of the mailer variant
MailerNewUser(id, r, otp, otpExpires) ==
  UserDoc(id, IF Falsy(r.username) THEN Null ELSE r.username, r.email,
          BcryptHash(r.password), otp, otpExpires)

\* the server variant from bcrypt.hash to the response: every exception ends in the
\* handler's catch, res.status(500).json({ message: error.message })
ServerRegisterSave(p, otp) ==
  LET r == req[p]
      otpExpires == DateAt(now + OtpTtlMs)
      doc == ServerNewUser(Len(users) + 1, r, otp, otpExpires)
  IN IF r.password.t # "string"
     THEN /\ req' = [req EXCEPT ![p] = Respond(r, 500, "Illegal arguments")]
          /\ UNCHANGED users
     ELSE IF r.email.t # "string" \/ r.username.t # "string"
     THEN /\ req' = [req EXCEPT ![p] = Respond(r, 500, "TypeError: trim")]
          /\ UNCHANGED users
     ELSE IF Falsy(doc.username) \/ Falsy(doc.email)
     THEN /\ req' = [req EXCEPT ![p] = Respond(r, 500, "User validation failed")]
          /\ UNCHANGED users
     ELSE IF DupEmail(users, doc) \/ DupUsername(users, doc)
     THEN /\ req' = [req EXCEPT ![p] = Respond(r, 500, "E11000 duplicate key error")]
          /\ UNCHANGED users
     ELSE /\ users' = Append(users, doc)
          /\ req' = [req EXCEPT ![p] =
               [Respond(r, 201, "User registered successfully. OTP sent (development).")
                  EXCEPT !.uid = doc.id, !.genOtp = otp, !.genExp = otpExpires,
                         !.bodyOtp = otp]]

\* mutant: a save that the unique index of email refuses replaces the password and
\* the challenge of the account that holds the email
MailerRegisterSaveUpsert(p, otp) ==
  LET r == req[p]
      otpExpires == DateAt(now + OtpTtlMs)
      doc == MailerNewUser(Len(users) + 1, r, otp, otpExpires)
      held == FindByEmail(users, doc.email)
  IN IF DupEmail(users, doc) \/ DupUsername(users, doc)
     THEN /\ req' = [req EXCEPT ![p] =
               Respond(r, 400, IF DupEmail(users, doc) THEN "Email already registered."
                               ELSE "Username already taken.")]
          /\ users' = IF held.id = 0 THEN users
                      ELSE [users EXCEPT ![held.id].password = doc.password,
                                         ![held.id].otp = otp,
                                         ![held.id].otpExpires = otpExpires]
     ELSE /\ users' = Append(users, doc)
          /\ req' = [req EXCEPT ![p] =
               [r EXCEPT !.pc = "reg_mail", !.uid = doc.id, !.genOtp = otp,
                         !.genExp = otpExpires]]

\* the mailer variant from bcrypt.hash to the answer of newUser.save()
MailerRegisterSave(p, otp) ==
  LET r == req[p]
      otpExpires == DateAt(now + OtpTtlMs)
      doc == MailerNewUser(Len(users) + 1, r, otp, otpExpires)
  IN IF DupEmail(users, doc) \/ DupUsername(users, doc)
     THEN /\ \E field \in {"email", "username"} :
               /\ field = "email" => DupEmail(users, doc)
               /\ field = "username" => DupUsername(users, doc)
               /\ req' = [req EXCEPT ![p] =
                    Respond(r, 400, IF field = "email" THEN "Email already registered."
                                    ELSE "Username already taken.")]
          /\ UNCHANGED users
     ELSE /\ users' = Append(users, doc)
          /\ req' = [req EXCEPT ![p] =
               [r EXCEPT !.pc = "reg_mail", !.uid = doc.id, !.genOtp = otp,
                         !.genExp = otpExpires]]

\* the handler from the answer of findOne on, with a code out of codes
RegisterSaveDrawing(p, codes) ==
  /\ req[p].pc = "reg_save"
  /\ \E otp \in codes :
       IF variant = Server THEN ServerRegisterSave(p, otp)
       ELSE MailerRegisterSave(p, otp)
  /\ UNCHANGED <<variant, assets, now>>

RegisterSave(p) == RegisterSaveDrawing(p, DrawnCodes)

\* mutant: save() writes the whole document the handler holds, isVerified included
UnsetOtpWholeDocument(coll, id) ==
  [coll EXCEPT ![id].otp = Undef, ![id].otpExpires = Undef, ![id].isVerified = FALSE]

\* mutant: the code is unset, its expiry stays
UnsetOtpCodeOnly(coll, id) == [coll EXCEPT ![id].otp = Undef]

\* doc.otp = undefined; doc.otpExpires = undefined; await doc.save(): mongoose
\* writes the modified paths only
UnsetOtp(coll, id) == [coll EXCEPT ![id].otp = Undef, ![id].otpExpires = Undef]

\* the mailer variant from the answer of sendOtpEmail to the response
RegisterMail(p) ==
  /\ req[p].pc = "reg_mail"
  /\ \E delivered \in BOOLEAN :
       IF delivered
       THEN /\ req' = [req EXCEPT ![p] =
                 Respond(req[p], 201, "Registration initiated. Check email for OTP.")]
            /\ UNCHANGED users
       ELSE /\ users' = UnsetOtp(users, req[p].uid)
            /\ req' = [req EXCEPT ![p] =
                 Respond(req[p], 500, "Account created but failed to send verification email. Please try logging in to receive a new OTP.")]
  /\ UNCHANGED <<variant, assets, now>>

(***************************************************************************)
(* POST /auth/verify-otp                                                   *)
(***************************************************************************)
\* mutant: verify-otp and login look the e-mail up as it was sent
LookupEmailAsSent(email) == email

\* if (email) email = email.trim().toLowerCase()   (server; the mailer takes it as sent)
LookupEmail(email) ==
  IF variant = Server /\ ~Falsy(email) THEN NormalizeEmail(email) ELSE email

\* the handler up to the answer of User.findOne({ email }); the body carries a
\* purpose, which the mailer variant destructures and no variant reads
VerifyFind(p, emails, otps, purposes) ==
  /\ CanStart(p)
  /\ \E email \in emails, otp \in otps, purpose \in purposes :
       LET r == [Idle EXCEPT !.kind = "verify", !.email = email, !.otp = otp,
                             !.purpose = purpose]
       IN req' = Start(p,
            IF Falsy(email) \/ Falsy(otp)
            THEN Respond(r, 400, IF variant = Server THEN "Email and OTP are required"
                                 ELSE "Please provide email and OTP.")
            ELSE [r EXCEPT !.pc = "verify_check",
                           !.snap = FindByEmail(users, LookupEmail(email))])
  /\ UNCHANGED <<variant, users, assets, now>>

\* mutant: the life time of the OTP is added once more at the check
ExpiredAfterGrace(otpExpires, time) == otpExpires.v[1] + OtpTtlMs < time

\* user.otpExpires < new Date()   (server),   new Date() > user.otpExpires   (mailer)
Expired(otpExpires, time) == otpExpires.v[1] < time

\* the checks of the handler on the document it read: "ok" or the response
ServerVerifyOutcome(user, otp, time) ==
  IF user.id = 0 THEN [status |-> 404, msg |-> "User not found"]
  ELSE IF user.isVerified THEN [status |-> 400, msg |-> "User already verified"]
  ELSE IF Falsy(user.otp) \/ Falsy(user.otpExpires)
  THEN [status |-> 400, msg |-> "No OTP set for user"]
  ELSE IF ~StrictEq(user.otp, otp) THEN [status |-> 400, msg |-> "Invalid OTP"]
  ELSE IF Expired(user.otpExpires, time) THEN [status |-> 400, msg |-> "OTP expired"]
  ELSE [status |-> 200, msg |-> "User verified successfully"]

MailerVerifyOutcome(user, otp, time) ==
  IF user.id = 0 THEN [status |-> 404, msg |-> "User not found."]
  ELSE IF Falsy(user.otp) \/ Falsy(user.otpExpires)
  THEN [status |-> 400, msg |-> "No OTP was generated for this user."]
  ELSE IF Expired(user.otpExpires, time) THEN [status |-> 400, msg |-> "OTP has expired."]
  ELSE IF ~StrictEq(user.otp, otp) THEN [status |-> 400, msg |-> "Invalid OTP."]
  ELSE [status |-> 200, msg |-> "OTP verified"]

VerifyOutcome(user, otp, time) ==
  IF variant = Server THEN ServerVerifyOutcome(user, otp, time)
  ELSE MailerVerifyOutcome(user, otp, time)

\* mutant: a successful verification leaves the OTP in its slot
SetVerifiedKeepOtp(coll, id) == [coll EXCEPT ![id].isVerified = TRUE]

\* mutant: the save clears the slot and leaves isVerified as it was
SetVerifiedSlotOnly(coll, id) ==
  [coll EXCEPT ![id].otp = Undef, ![id].otpExpires = Undef]

\* user.isVerified = true; user.otp = undefined; user.otpExpires = undefined;
\* await user.save()
SetVerified(coll, id) ==
  [coll EXCEPT ![id].isVerified = TRUE, ![id].otp = Undef, ![id].otpExpires = Undef]

\* the handler from the answer of findOne to the response
\* mutant: a refused attempt clears the challenge of the account it loaded
VerifyCheckConsuming(p) ==
  /\ req[p].pc = "verify_check"
  /\ LET r == req[p]
         out == VerifyOutcome(r.snap, r.otp, now)
         done == [Respond(r, out.status, out.msg) EXCEPT !.uid = r.snap.id]
     IN IF out.status = 200
        THEN /\ users' = SetVerified(users, r.snap.id)
             /\ req' = [req EXCEPT ![p] = [done EXCEPT !.token = SignToken(r.snap)]]
        ELSE /\ req' = [req EXCEPT ![p] = done]
             /\ users' = IF r.snap.id = 0 THEN users
                         ELSE [users EXCEPT ![r.snap.id].otp = Undef,
                                            ![r.snap.id].otpExpires = Undef]
  /\ UNCHANGED <<variant, assets, now>>

VerifyCheck(p) ==
  /\ req[p].pc = "verify_check"
  /\ LET r == req[p]
         out == VerifyOutcome(r.snap, r.otp, now)
         done == [Respond(r, out.status, out.msg) EXCEPT !.uid = r.snap.id]
     IN IF out.status = 200
        THEN /\ users' = SetVerified(users, r.snap.id)
             /\ req' = [req EXCEPT ![p] = [done EXCEPT !.token = SignToken(r.snap)]]
        ELSE /\ req' = [req EXCEPT ![p] = done]
             /\ UNCHANGED users
  /\ UNCHANGED <<variant, assets, now>>

(***************************************************************************)
(* POST /auth/login                                                        *)
(***************************************************************************)
\* User.findOne({ email }) with an e-mail that may be undefined
FindForLogin(coll, email, strip) ==
  LET match(u) == FilterMatches(u.email, email, strip) IN FindFirst(coll, match)

\* the handler up to the answer of User.findOne({ email })
LoginFind(p, emails, passwords) ==
  /\ CanStart(p)
  /\ \E email \in emails, password \in passwords :
     \E strip \in StripChoices({email}) :
       LET r == [Idle EXCEPT !.kind = "login", !.email = email, !.password = password]
       IN req' = Start(p,
            IF variant = Mailer /\ (Falsy(email) \/ Falsy(password))
            THEN Respond(r, 400, "Please enter all fields.")
            ELSE [r EXCEPT !.pc = "login_check",
                           !.snap = FindForLogin(users, LookupEmail(email), strip)])
  /\ UNCHANGED <<variant, users, assets, now>>

\* the server variant from the answer of findOne to the response
ServerLoginCheck(p) ==
  LET r == req[p]
      user == r.snap
      found == [r EXCEPT !.uid = user.id]
  IN /\ req' = [req EXCEPT ![p] =
          IF user.id = 0 THEN Respond(found, 400, "Invalid email or password")
          ELSE IF ~user.isVerified
          THEN Respond(found, 403, "Email not verified. Please verify OTP before logging in.")
          ELSE IF r.password.t # "string" THEN Respond(found, 500, "Illegal arguments")
          ELSE IF ~BcryptCompare(r.password, user.password)
          THEN Respond(found, 400, "Invalid email or password")
          ELSE [Respond(found, 200, "Logged in successfully")
                  EXCEPT !.token = SignToken(user)]]
     /\ UNCHANGED users

\* mutant: the code is written, its expiry is not
SetOtpCodeOnly(coll, user, otp, otpExpires) == [coll EXCEPT ![user.id].otp = otp]

\* user.otp = otp; user.otpExpires = otpExpires; await user.save(), on the document
\* user that findOne returned: mongoose marks a path modified when the value set
\* differs from the value the document holds, and save() writes the modified paths
SetOtp(coll, user, otp, otpExpires) ==
  [coll EXCEPT ![user.id].otp = IF StrictEq(user.otp, otp) THEN @ ELSE otp,
               ![user.id].otpExpires =
                  IF StrictEq(user.otpExpires, otpExpires) THEN @ ELSE otpExpires]

\* the mailer variant from the answer of findOne to the answer of user.save()
MailerLoginCheck(p, otp) ==
  LET r == req[p]
      user == r.snap
      otpExpires == DateAt(now + OtpTtlMs)
      found == [r EXCEPT !.uid = user.id]
  IN IF user.id = 0 \/ ~BcryptCompare(r.password, user.password)
     THEN /\ req' = [req EXCEPT ![p] = Respond(found, 400, "Invalid credentials.")]
          /\ UNCHANGED users
     ELSE /\ users' = SetOtp(users, user, otp, otpExpires)
          /\ req' = MarkReissued([req EXCEPT ![p] =
               [found EXCEPT !.pc = "login_mail", !.genOtp = otp, !.genExp = otpExpires]],
               p, user.id)

\* the handler from the answer of findOne on, with a code out of codes
LoginCheckDrawing(p, codes) ==
  /\ req[p].pc = "login_check"
  /\ IF variant = Server THEN ServerLoginCheck(p)
     ELSE \E otp \in codes : MailerLoginCheck(p, otp)
  /\ UNCHANGED <<variant, assets, now>>

LoginCheck(p) == LoginCheckDrawing(p, DrawnCodes)

\* the mailer variant from the answer of sendOtpEmail to the response
LoginMail(p) ==
  /\ req[p].pc = "login_mail"
  /\ \E delivered \in BOOLEAN :
       IF delivered
       THEN /\ req' = [req EXCEPT ![p] =
                 Respond(req[p], 200, "Login OTP sent. Check your email.")]
            /\ UNCHANGED users
       ELSE /\ users' = UnsetOtp(users, req[p].snap.id)
            /\ req' = [req EXCEPT ![p] = Respond(req[p], 500, "Failed to send login OTP.")]
  /\ UNCHANGED <<variant, assets, now>>

(***************************************************************************)
(* The asset endpoints. A handler makes one call to the assets collection, *)
(* after authenticateToken.                                                *)
(***************************************************************************)
NoAsset ==
  [id |-> 0, live |-> FALSE, userId |-> 0, type |-> Undef, name |-> Undef,
   quantity |-> Undef, price |-> Undef]

\* mutant: the token is decoded, its signature and its expiry are not verified
AuthenticateTokenDecodeOnly(auth) ==
  IF auth.t = "none"
  THEN [status |-> 401, userId |-> 0, msg |-> "No token provided."]
  ELSE [status |-> 0, userId |-> auth.claims.userId, msg |-> ""]

\* authenticateToken: the response that ends the request, or status 0 and the
\* account identifier the handler gets (req.user._id / req.userId)
AuthenticateToken(auth) ==
  IF auth.t = "none"
  THEN [status |-> 401, userId |-> 0,
        msg |-> IF variant = Server THEN "Authentication token required"
                ELSE "No token provided."]
  ELSE IF auth.t = "rejected"
  THEN [status |-> 403, userId |-> 0,
        msg |-> IF variant = Server THEN "Invalid token" ELSE "Token is invalid."]
  ELSE [status |-> 0, userId |-> auth.claims.userId, msg |-> ""]

\* the request as it reaches the handler
AssetRequest(kind, auth, aid) ==
  [Idle EXCEPT !.kind = kind, !.auth = auth, !.aid = aid,
               !.uid = AuthenticateToken(auth).userId]

\* the response of authenticateToken, when it ends the request
Denied(r) == Respond(r, AuthenticateToken(r.auth).status, AuthenticateToken(r.auth).msg)

\* the live document with _id aid, or NoAsset
FindAsset(coll, aid) ==
  IF aid \in 1..Len(coll) /\ coll[aid].live THEN coll[aid] ELSE NoAsset

\* Asset.find({ userId })
AssetsOf(coll, userId) == {i \in 1..Len(coll) : coll[i].live /\ coll[i].userId = userId}

\* GET /assets
GetAssets(p, auths) ==
  /\ CanStart(p)
  /\ \E auth \in auths :
       LET r == AssetRequest("asset_get", auth, 0)
       IN req' = Start(p,
            IF AuthenticateToken(auth).status # 0 THEN Denied(r)
            ELSE [Respond(r, 200, "") EXCEPT !.seen = AssetsOf(assets, r.uid)])
  /\ UNCHANGED <<variant, users, assets, now>>

\* the schema of an asset: type, name, quantity and price are required
AssetValid(body) ==
  /\ body.type.t = "string" /\ body.type.v # <<>>
  /\ body.name.t = "string" /\ body.name.v # <<>>
  /\ body.quantity.t = "number"
  /\ body.price.t = "number"

\* if (!type || !name || quantity == null || price == null)        (mailer)
MailerAssetRejected(body) ==
  \/ Falsy(body.type) \/ Falsy(body.name)
  \/ body.quantity.t \in {"undefined", "null"}
  \/ body.price.t \in {"undefined", "null"}

\* new Asset({ userId, type, name, quantity, price })
NewAsset(id, userId, body) ==
  [id |-> id, live |-> TRUE, userId |-> userId, type |-> body.type, name |-> body.name,
   quantity |-> body.quantity, price |-> body.price]

\* POST /assets
PostAsset(p, auths, bodies) ==
  /\ CanStart(p)
  /\ Len(assets) < MaxAssets
  /\ \E auth \in auths, body \in bodies :
       LET r == AssetRequest("asset_post", auth, 0)
           doc == NewAsset(Len(assets) + 1, r.uid, body)
       IN IF AuthenticateToken(auth).status # 0
          THEN req' = Start(p, Denied(r)) /\ UNCHANGED assets
          ELSE IF variant = Mailer /\ MailerAssetRejected(body)
          THEN req' = Start(p, Respond(r, 400, "Invalid asset data")) /\ UNCHANGED assets
          ELSE IF ~AssetValid(body)
          THEN /\ req' = Start(p, IF variant = Server
                                  THEN Respond(r, 400, "Asset validation failed")
                                  ELSE Respond(r, 500, "Server error creating asset."))
               /\ UNCHANGED assets
          ELSE /\ assets' = Append(assets, doc)
               /\ req' = Start(p, [Respond(r, 201, "") EXCEPT !.aid = doc.id])
  /\ UNCHANGED <<variant, users, now>>

\* the update document: req.body as it is (server); the fields type, name, quantity
\* and price of req.body that are not undefined (mailer)
UpdateOf(body) == IF variant = Server THEN body ELSE [body EXCEPT !.userId = 0]

\* $set of the fields the update document holds
ApplyUpdate(doc, upd) ==
  [doc EXCEPT !.userId = IF upd.userId = 0 THEN @ ELSE upd.userId,
              !.type = IF upd.type.t = "undefined" THEN @ ELSE upd.type,
              !.name = IF upd.name.t = "undefined" THEN @ ELSE upd.name,
              !.quantity = IF upd.quantity.t = "undefined" THEN @ ELSE upd.quantity,
              !.price = IF upd.price.t = "undefined" THEN @ ELSE upd.price]

\* the filter of the update and of the delete: Asset.findByIdAndUpdate(id, ...),
\* Asset.findByIdAndDelete(id) (server); { _id: id, userId: req.userId } (mailer)
AssetFilter(doc, aid, userId) ==
  /\ doc.live /\ doc.id = aid
  /\ variant = Mailer => doc.userId = userId

NotFoundMessage == IF variant = Server THEN "Asset not found" ELSE "Asset not found or forbidden"

\* PUT /assets/:id
PutAsset(p, auths, aids, bodies) ==
  /\ CanStart(p)
  /\ \E auth \in auths, aid \in aids, body \in bodies :
       LET r == AssetRequest("asset_put", auth, aid)
           doc == FindAsset(assets, aid)
       IN IF AuthenticateToken(auth).status # 0
          THEN req' = Start(p, Denied(r)) /\ UNCHANGED assets
          ELSE IF ~AssetFilter(doc, aid, r.uid)
          THEN req' = Start(p, Respond(r, 404, NotFoundMessage)) /\ UNCHANGED assets
          ELSE /\ assets' = [assets EXCEPT ![aid] = ApplyUpdate(doc, UpdateOf(body))]
               /\ req' = Start(p, Respond(r, 200, ""))
  /\ UNCHANGED <<variant, users, now>>

\* mutant: the delete also takes the verification of the caller's account away
DeleteAssetAndVerification(p, auths, aids) ==
  /\ CanStart(p)
  /\ \E auth \in auths, aid \in aids :
       LET r == AssetRequest("asset_delete", auth, aid)
       IN /\ AuthenticateToken(auth).status = 0
          /\ AssetFilter(FindAsset(assets, aid), aid, r.uid)
          /\ assets' = [assets EXCEPT ![aid].live = FALSE]
          /\ users' = [users EXCEPT ![r.uid].isVerified = FALSE]
          /\ req' = Start(p, Respond(r, 200, "Asset deleted"))
  /\ UNCHANGED <<variant, now>>

\* DELETE /assets/:id
DeleteAsset(p, auths, aids) ==
  /\ CanStart(p)
  /\ \E auth \in auths, aid \in aids :
       LET r == AssetRequest("asset_delete", auth, aid)
           doc == FindAsset(assets, aid)
       IN IF AuthenticateToken(auth).status # 0
          THEN req' = Start(p, Denied(r)) /\ UNCHANGED assets
          ELSE IF ~AssetFilter(doc, aid, r.uid)
          THEN req' = Start(p, Respond(r, 404, NotFoundMessage)) /\ UNCHANGED assets
          ELSE /\ assets' = [assets EXCEPT ![aid].live = FALSE]
               /\ req' = Start(p, Respond(r, 200, IF variant = Server
                                                  THEN "Asset deleted successfully"
                                                  ELSE "Asset deleted"))
  /\ UNCHANGED <<variant, users, now>>

\* two verified accounts, as register and verify-otp leave them
VerifiedUser(id, username, email) ==
  [UserDoc(id, username, email, BcryptHash(Pass1), Undef, Undef)
     EXCEPT !.isVerified = TRUE]

TwoUsers == <<VerifiedUser(1, UserU, EmailLower), VerifiedUser(2, UserV, EmailOther)>>

\* the Authorization headers the clients of the two accounts send
AuthInputs == {NoAuth, BadAuth} \cup {Bearer(SignToken(TwoUsers[i])) : i \in 1..Len(TwoUsers)}

\* the bodies of POST /assets and PUT /assets/:id
AssetBodies ==
  {[type |-> ty, name |-> Str(<<"n">>), quantity |-> qu, price |-> Num(3), userId |-> ow] :
     ty \in {Str(<<"s">>), Undef}, qu \in {Num(1), Num(2), Undef}, ow \in 0..Len(TwoUsers)}

\* asset requests are handled one after the other
AssetProcs == {"r1"}

InitAssets ==
  /\ variant \in {Server, Mailer}
  /\ users = TwoUsers
  /\ assets = <<>>
  /\ now = 0
  /\ req = [p \in Procs |-> Idle]

NextAssets ==
  \/ \E p \in AssetProcs : GetAssets(p, AuthInputs)
  \/ \E p \in AssetProcs : PostAsset(p, AuthInputs, AssetBodies)
  \/ \E p \in AssetProcs : PutAsset(p, AuthInputs, 1..MaxAssets, AssetBodies)
  \/ \E p \in AssetProcs : DeleteAsset(p, AuthInputs, 1..MaxAssets)

SpecAssets == InitAssets /\ [][NextAssets]_vars

(***************************************************************************)
(* Registration alone, over the spellings of one identity.                 *)
(***************************************************************************)
NextRegister ==
  \/ \E p \in Procs : RegisterFind(p, SpellingInputs)
  \/ \E p \in Procs : RegisterSave(p)
  \/ \E p \in Procs : RegisterMail(p)

SpecRegister == Init /\ [][NextRegister]_vars

(***************************************************************************)
(* The authentication flows of one person.                                 *)
(***************************************************************************)
Next ==
  \/ Tick
  \/ \E p \in Procs : RegisterFind(p, PersonInputs)
  \/ \E p \in Procs : RegisterSave(p)
  \/ \E p \in Procs : RegisterMail(p)
  \/ \E p \in Procs : VerifyFind(p, PersonEmails, OtpInputs, NoPurpose)
  \/ \E p \in Procs : VerifyCheck(p)
  \/ \E p \in Procs : LoginFind(p, PersonEmails, PersonPasswords)
  \/ \E p \in Procs : LoginCheck(p)
  \/ \E p \in Procs : LoginMail(p)

Spec == Init /\ [][Next]_vars

(***************************************************************************)
(* The flows of one person whose verify-otp calls carry a purpose.         *)
(***************************************************************************)
NextPurpose ==
  \/ \E p \in Procs : RegisterFind(p, PersonInputs)
  \/ \E p \in Procs : RegisterSave(p)
  \/ \E p \in Procs : RegisterMail(p)
  \/ \E p \in Procs :
       VerifyFind(p, {EmailUpper}, {GenerateOtp(k) : k \in RandomDraws}, PurposeInputs)
  \/ \E p \in Procs : VerifyCheck(p)
  \/ \E p \in Procs : LoginFind(p, {EmailUpper}, {Pass1})
  \/ \E p \in Procs : LoginCheck(p)
  \/ \E p \in Procs : LoginMail(p)

SpecPurpose == Init /\ [][NextPurpose]_vars

(***************************************************************************)
(* The flows of one person when Math.random() gives more than one code.    *)
(***************************************************************************)
ReissueCodes == {NumToString(OtpNumberAt(k, ReissueSteps)) : k \in 0..(ReissueSteps - 1)}

NextReissue ==
  \/ \E p \in Procs : RegisterFind(p, PersonInputs)
  \/ \E p \in Procs : RegisterSaveDrawing(p, ReissueCodes)
  \/ \E p \in Procs : RegisterMail(p)
  \/ \E p \in Procs : VerifyFind(p, PersonEmails, ReissueCodes, NoPurpose)
  \/ \E p \in Procs : VerifyCheck(p)
  \/ \E p \in Procs : LoginFind(p, PersonEmails, {Pass1})
  \/ \E p \in Procs : LoginCheckDrawing(p, ReissueCodes)
  \/ \E p \in Procs : LoginMail(p)

SpecReissue == Init /\ [][NextReissue]_vars

(***************************************************************************)
(* The requests that issue an OTP, over a sample of the values of          *)
(* Math.random().                                                          *)
(***************************************************************************)
SampledCodes == {NumToString(OtpNumberAt(k, OtpSamples)) : k \in 0..(OtpSamples - 1)}

IssueProcs == {"r1"}

NextIssue ==
  \/ Tick
  \/ \E p \in IssueProcs : RegisterFind(p, PersonInputs)
  \/ \E p \in IssueProcs : RegisterSaveDrawing(p, SampledCodes)
  \/ \E p \in IssueProcs : RegisterMail(p)
  \/ \E p \in IssueProcs : LoginFind(p, PersonEmails, {Pass1})
  \/ \E p \in IssueProcs : LoginCheckDrawing(p, SampledCodes)
  \/ \E p \in IssueProcs : LoginMail(p)

SpecIssue == Init /\ [][NextIssue]_vars

(***************************************************************************)
(* One client that sends its requests one after the other and retries.     *)
(***************************************************************************)
RetryProcs == {"r1"}

NextRetry ==
  \/ Tick
  \/ \E p \in RetryProcs : RegisterFind(p, PersonInputs)
  \/ \E p \in RetryProcs : RegisterSave(p)
  \/ \E p \in RetryProcs : RegisterMail(p)
  \/ \E p \in RetryProcs : VerifyFind(p, SpelledEmails, OtpInputs, NoPurpose)
  \/ \E p \in RetryProcs : VerifyCheck(p)
  \/ \E p \in RetryProcs : LoginFind(p, SpelledEmails, PersonPasswords)
  \/ \E p \in RetryProcs : LoginCheck(p)
  \/ \E p \in RetryProcs : LoginMail(p)

\* the client logs in to an existing account with its password
LoginAgain(p) ==
  /\ LoginFind(p, SpelledEmails, PersonPasswords)
  /\ req'[p].pc = "login_check"
  /\ req'[p].snap.id # 0
  /\ BcryptCompare(req'[p].password, req'[p].snap.password)

\* sendOtpEmail resolves
LoginMailDelivered(p) == LoginMail(p) /\ req'[p].status = 200

\* the client presents the code of the outstanding challenge before it expires
VerifyInTime(p) ==
  /\ VerifyFind(p, SpelledEmails, OtpInputs, NoPurpose)
  /\ req'[p].pc = "verify_check"
  /\ VerifyOutcome(req'[p].snap, req'[p].otp, now).status = 200

\* a handler that waits for the store or for the mail transport is resumed; the
\* client retries its login and its verification, and the mail transport does not
\* fail for ever
FairRetry ==
  \A p \in RetryProcs :
    /\ WF_vars(RegisterSave(p))
    /\ WF_vars(RegisterMail(p))
    /\ WF_vars(VerifyCheck(p))
    /\ WF_vars(LoginCheck(p))
    /\ WF_vars(LoginMail(p))
    /\ SF_vars(LoginAgain(p))
    /\ SF_vars(LoginMailDelivered(p))
    /\ SF_vars(VerifyInTime(p))

SpecRetry == Init /\ [][NextRetry]_vars /\ FairRetry

(***************************************************************************)
(* Properties.                                                             *)
(***************************************************************************)
\* handler p holds the response of a successful registration
Registered(p) == req[p].kind = "register" /\ req[p].pc = "done" /\ req[p].status = 201

\* the OTP which the registration of handler p issued is still the outstanding
\* challenge of the account it created
ChallengeOutstanding(p) ==
  /\ StrictEq(users[req[p].uid].otp, req[p].genOtp)
  /\ StrictEq(users[req[p].uid].otpExpires, req[p].genExp)

\* no request wrote the account that handler q read since q read it
Undisturbed(q) == req[q].snap.id # 0 => users[req[q].snap.id] = req[q].snap

\* C1: in both variants, a verify-otp call that arrives after a successful register
\* answered, for the e-mail of that register and with the code it issued, at a time
\* not later than the expiry of the code, while that code is still the outstanding
\* challenge of the account, answers 200 with a token whose userId is the _id of the
\* account the register created.
C1_RegisterThenVerifyIssuesToken ==
  [][\A p, q \in Procs :
       (/\ Registered(p)
        /\ req[q].pc = "verify_check" /\ req'[q].pc = "done"
        /\ p \in req[q].after
        /\ req[q].email = req[p].email
        /\ StrictEq(req[q].otp, req[p].genOtp)
        /\ ChallengeOutstanding(p)
        /\ Undisturbed(q)
        /\ now <= req[p].genExp.v[1])
       => (/\ req'[q].status = 200
           /\ req'[q].token.userId = req[p].uid
           /\ req[p].uid \in 1..Len(users))]_vars

C1_Witness ==
  \E p, q \in Procs :
    /\ Registered(p)
    /\ req[q].kind = "verify" /\ req[q].pc = "done" /\ req[q].status = 200
    /\ req[q].email = req[p].email
    /\ StrictEq(req[q].otp, req[p].genOtp)
    /\ req[q].token.userId = req[p].uid
    /\ users[req[p].uid].isVerified

\* a registration body with an e-mail, a user name and a password
ValidBody(r) == r.email.t = "string" /\ r.username.t = "string" /\ r.password.t = "string"

\* the stored accounts whose e-mail is, normalized, the e-mail e normalized
AccountsOf(coll, e) ==
  {i \in 1..Len(coll) : StrictEq(NormalizeEmail(coll[i].email), NormalizeEmail(e))}

\* C2: when a register answered 201 and a second register, which arrived after that
\* answer, with another user name and an e-mail equal to the first after trim and
\* lower-casing, answers, then the answer is 400 and one account has that e-mail.
C2_SecondRegisterIsConflict ==
  [][\A p, q \in Procs :
       (/\ Registered(p) /\ ValidBody(req[p])
        /\ req[q].kind = "register" /\ req[q].pc # "done" /\ req'[q].pc = "done"
        /\ p \in req[q].after
        /\ ValidBody(req[q])
        /\ StrictEq(NormalizeEmail(req[q].email), NormalizeEmail(req[p].email))
        /\ ~StrictEq(req[q].username, req[p].username))
       => (/\ req'[q].status = 400
           /\ Cardinality(AccountsOf(users', req[p].email)) = 1)]_vars

\* C3: when two registers for the same e-mail both passed the findOne pre-check and
\* one of them has created the account, the other one answers 400 (a duplicate, not
\* a server error) and stores no account.
C3_ConcurrentRegisterIsConflict ==
  [][\A p, q \in Procs :
       (/\ p # q
        /\ req[p].kind = "register" /\ req[p].uid # 0 /\ ValidBody(req[p])
        /\ req[q].kind = "register" /\ req[q].pc = "reg_save" /\ req'[q].pc = "done"
        /\ p \notin req[q].after
        /\ ValidBody(req[q])
        /\ StrictEq(req[q].email, req[p].email))
       => (/\ req'[q].status = 400
           /\ users' = users)]_vars

\* C4: a verify-otp call that read an account whose otpExpires is earlier than the
\* clock answers 400, signs no token and writes nothing, whatever code it presents.
C4_ExpiredOtpRejected ==
  [][\A q \in Procs :
       (/\ req[q].pc = "verify_check" /\ req'[q].pc = "done"
        /\ req[q].snap.id # 0
        /\ req[q].snap.otpExpires.t = "date"
        /\ now > req[q].snap.otpExpires.v[1])
       => (/\ req'[q].status = 400
           /\ req'[q].token = NoToken
           /\ users' = users)]_vars

\* a rejected verify-otp call whose code is the stored one, after its expiry
C4_Witness ==
  \E q \in Procs :
    /\ req[q].kind = "verify" /\ req[q].pc = "done" /\ req[q].status = 400
    /\ req[q].uid # 0
    /\ StrictEq(users[req[q].uid].otp, req[q].otp)
    /\ users[req[q].uid].otpExpires.v[1] < now
    /\ ~users[req[q].uid].isVerified

\* handler p holds the response of a successful verify-otp call
Verified(p) == req[p].kind = "verify" /\ req[p].pc = "done" /\ req[p].status = 200

\* handler q answers, in this step, a verify-otp call that presents again the code
\* of the successful call of handler p, arrived after p answered, and no OTP was
\* issued for the account since
SecondPresentation(p, q) ==
  /\ Verified(p)
  /\ req[q].pc = "verify_check" /\ req'[q].pc = "done"
  /\ p \in req[q].after
  /\ req[q].email = req[p].email
  /\ StrictEq(req[q].otp, req[p].otp)
  /\ ~req[p].reissued

\* the messages of the outcomes NoChallenge, Mismatch and Expired
InvalidOrExpiredOtp ==
  {"No OTP set for user", "Invalid OTP", "OTP expired",
   "No OTP was generated for this user.", "Invalid OTP.", "OTP has expired."}

\* C5 as stated: the second presentation of a consumed OTP answers 400 with a
\* NoChallenge / InvalidOrExpiredOtp message and no token.
C5_SecondPresentationIsNoChallenge ==
  [][\A p, q \in Procs :
       SecondPresentation(p, q)
       => (/\ req'[q].status = 400
           /\ req'[q].msg \in InvalidOrExpiredOtp
           /\ req'[q].token = NoToken)]_vars

\* C5 amended: the second presentation of a consumed OTP answers 400, signs no token
\* and writes nothing; the outcome is NoChallenge in the mailer variant and
\* AlreadyVerified in the server variant.
C5_SecondPresentationRejected ==
  [][\A p, q \in Procs :
       SecondPresentation(p, q)
       => (/\ req'[q].status = 400
           /\ req'[q].msg = IF variant = Server THEN "User already verified"
                            ELSE "No OTP was generated for this user."
           /\ req'[q].token = NoToken
           /\ users' = users)]_vars

C5_Witness ==
  \E p, q \in Procs :
    /\ Verified(p)
    /\ req[q].kind = "verify" /\ req[q].pc = "done" /\ req[q].status = 400
    /\ req[q].uid = req[p].uid
    /\ req[q].email = req[p].email
    /\ StrictEq(req[q].otp, req[p].otp)
    /\ ~req[p].reissued
    /\ req[q].msg \in {"User already verified", "No OTP was generated for this user."}

\* C6: a login that found an account and whose password does not match answers with
\* the status and the message of a login that found no account.
C6_WrongPasswordLooksLikeNoAccount ==
  [][\A p, q \in Procs :
       (/\ req[p].kind = "login" /\ req[p].pc = "done" /\ req[p].uid = 0
        /\ ~Falsy(req[p].email) /\ ~Falsy(req[p].password)
        /\ req[q].pc = "login_check" /\ req'[q].pc = "done"
        /\ req[q].snap.id # 0
        /\ req[q].password.t = "string"
        /\ ~BcryptCompare(req[q].password, req[q].snap.password))
       => (/\ req'[q].status = req[p].status
           /\ req'[q].msg = req[p].msg)]_vars

\* handler q answers, in this step, a login with the e-mail of the successful
\* verify-otp call of handler p and the password of the account, arrived after p
\* answered
LoginAfterVerification(p, q) ==
  /\ Verified(p)
  /\ req[q].kind = "login" /\ req[q].pc # "done" /\ req'[q].pc = "done"
  /\ p \in req[q].after
  /\ req[q].email = req[p].email
  /\ BcryptCompare(req[q].password, users[req[p].uid].password)

\* isVerified, once true, stays true
VerifiedIsStable ==
  \A i \in 1..Len(users) : users[i].isVerified => users'[i].isVerified

\* C7 as stated: isVerified stays true and every login after the verification, with
\* the right password, answers 200.
C7_LoginAfterVerificationIs200 ==
  [][/\ VerifiedIsStable
     /\ \A p, q \in Procs : LoginAfterVerification(p, q) => req'[q].status = 200]_vars

\* C7 amended: isVerified stays true and every login after the verification, with the
\* right password, answers 200, or, in the mailer variant when the login OTP could
\* not be delivered, 500 "Failed to send login OTP."; it never answers 403.
C7_LoginAfterVerificationNotRefused ==
  [][/\ VerifiedIsStable
     /\ \A p, q \in Procs :
          LoginAfterVerification(p, q)
          => \/ req'[q].status = 200
             \/ /\ variant = Mailer
                /\ req[q].pc = "login_mail"
                /\ req'[q].status = 500
                /\ req'[q].msg = "Failed to send login OTP."]_vars

C7_Witness ==
  \E p, q \in Procs :
    /\ Verified(p)
    /\ req[q].kind = "login" /\ req[q].pc = "done" /\ req[q].status = 200
    /\ req[q].uid = req[p].uid
    /\ req[q].email = req[p].email
    /\ users[req[p].uid].isVerified

\* C10: a login that found an account with isVerified false and whose password
\* matches answers 403, signs no token and issues no login OTP.
C10_UnverifiedLoginRefused ==
  [][\A q \in Procs :
       (/\ req[q].pc = "login_check" /\ req'[q].pc # "login_check"
        /\ req[q].snap.id # 0
        /\ ~req[q].snap.isVerified
        /\ BcryptCompare(req[q].password, req[q].snap.password))
       => (/\ req'[q].pc = "done"
           /\ req'[q].status = 403
           /\ req'[q].token = NoToken
           /\ users' = users)]_vars

\* this step answers a request of the given kind of handler p, authenticated by a
\* valid token, for an asset that is live and belongs to another account
ByNonOwner(p, kind) ==
  /\ req'[p].kind = kind /\ req'[p].pc = "done"
  /\ req'[p].auth.t = "bearer"
  /\ req'[p].aid \in 1..Len(assets)
  /\ assets[req'[p].aid].live
  /\ assets[req'[p].aid].userId # req'[p].auth.claims.userId

\* C8: DELETE /assets/:id by an account that does not own the asset answers 404 or
\* 403 and leaves the asset in the store, and an asset is removed only by a request
\* whose token carries the identifier of its owner.
C8_DeleteOnlyByOwner ==
  [][/\ \A p \in Procs :
          ByNonOwner(p, "asset_delete")
          => (req'[p].status \in {403, 404} /\ assets' = assets)
     /\ \A i \in 1..Len(assets) :
          (assets[i].live /\ ~assets'[i].live)
          => \E p \in Procs : /\ req'[p].kind = "asset_delete"
                               /\ req'[p].auth.claims.userId = assets[i].userId]_vars

\* C9: PUT /assets/:id by an account that does not own the asset changes no field of
\* it, and a field of an asset changes only by a request whose token carries the
\* identifier of its owner.
C9_UpdateOnlyByOwner ==
  [][/\ \A p \in Procs : ByNonOwner(p, "asset_put") => assets' = assets
     /\ \A i \in 1..Len(assets) :
          (assets[i].live /\ assets'[i].live /\ assets'[i] # assets[i])
          => \E p \in Procs : /\ req'[p].kind = "asset_put"
                               /\ req'[p].auth.claims.userId = assets[i].userId]_vars

\* C11: a login handler that leaves its password check either read an account whose
\* stored hash is the hash of the password of this request, or answers without
\* writing the store and without calling sendOtpEmail: the OTP slot changes and the
\* notification is sent only after the password of the same request matched.
C11_LoginOtpOnlyAfterPasswordMatch ==
  [][\A p \in Procs :
       (/\ req[p].kind = "login"
        /\ req[p].pc = "login_check" /\ req'[p].pc # "login_check")
       => (\/ /\ req[p].snap.id # 0
              /\ req[p].snap.password = BcryptHash(req[p].password)
           \/ /\ users' = users
              /\ req'[p].pc = "done")]_vars

C11_Witness ==
  \E p \in Procs :
    /\ variant = Mailer
    /\ req[p].kind = "login" /\ req[p].pc = "done" /\ req[p].status = 400
    /\ req[p].uid \in 1..Len(users)
    /\ users[req[p].uid].password # BcryptHash(req[p].password)
    /\ ~Falsy(users[req[p].uid].otp)

\* the responses of register and of login when sendOtpEmail threw
DeliveryFailedMessages ==
  {"Account created but failed to send verification email. Please try logging in to receive a new OTP.",
   "Failed to send login OTP."}

\* handler p holds the response of a register or a login whose notification failed
DeliveryFailed(p) ==
  /\ req[p].kind \in {"register", "login"}
  /\ req[p].pc = "done" /\ req[p].status = 500
  /\ req[p].msg \in DeliveryFailedMessages

\* C12: once a register or a login whose notification failed has responded, and
\* until an OTP is issued again for the account, the stored account has neither otp
\* nor otpExpires.
C12_DeliveryFailureClearsOtp ==
  \A p \in Procs :
    (DeliveryFailed(p) /\ ~req[p].reissued)
    => (/\ req[p].uid \in 1..Len(users)
        /\ users[req[p].uid].otp = Undef
        /\ users[req[p].uid].otpExpires = Undef)

C12_Witness ==
  \E p, q \in Procs :
    /\ DeliveryFailed(p) /\ req[p].kind = "login" /\ ~req[p].reissued
    /\ DeliveryFailed(q) /\ req[q].kind = "register"
    /\ req[q].uid = req[p].uid

\* the response of the outer catch of register in the mailer variant
GenericRegisterError == "Server error during registration."

\* handler p holds the response of a register whose notification failed
RegisterDeliveryFailed(p) == DeliveryFailed(p) /\ req[p].kind = "register"

\* an account with e-mail e is verified
VerifiedAccount(e) ==
  \E i \in 1..Len(users) : StrictEq(users[i].email, e) /\ users[i].isVerified

\* C13: a register whose notification failed answers with a message that is not the
\* message of the generic server error, and from that response the requests of a
\* client that retries (login with the password, then verify-otp with the code the
\* login issued) bring the account to isVerified.
C13_DeliveryFailedRegistrationCanVerify ==
  /\ [](\A p \in Procs : RegisterDeliveryFailed(p) => req[p].msg # GenericRegisterError)
  /\ \A e \in PersonEmails :
       (\E p \in Procs : RegisterDeliveryFailed(p) /\ StrictEq(req[p].email, e))
         ~> VerifiedAccount(e)

C13_Witness ==
  \E p \in Procs :
    /\ RegisterDeliveryFailed(p)
    /\ req[p].uid \in 1..Len(users)
    /\ ~users[req[p].uid].isVerified
    /\ Falsy(users[req[p].uid].otp)

\* C14: a verify-otp call with purpose register that read a verified account answers
\* 400 "User already verified", signs no token and writes nothing, also when the
\* account holds an outstanding OTP and the call presents it.
C14_VerifiedAccountIsAlreadyVerified ==
  [][\A q \in Procs :
       (/\ req[q].pc = "verify_check" /\ req'[q].pc = "done"
        /\ StrictEq(req[q].purpose, PurposeRegister)
        /\ req[q].snap.id # 0
        /\ req[q].snap.isVerified)
       => (/\ req'[q].status = 400
           /\ req'[q].msg = "User already verified"
           /\ req'[q].token = NoToken
           /\ users' = users)]_vars

\* handler p holds the response of the request that issued an OTP
Issued(p) ==
  /\ req[p].pc = "done"
  /\ \/ req[p].kind = "register" /\ req[p].status = 201
     \/ req[p].kind = "login" /\ req[p].status = 200
  /\ ~Falsy(req[p].genOtp)

\* the purpose the OTP of handler p was issued for
IssuedFor(p) == IF req[p].kind = "register" THEN PurposeRegister ELSE PurposeLogin

\* C15: a verify-otp call that presents the outstanding OTP of an account with a
\* purpose other than the one the OTP was issued for is not accepted.
C15_OtpBoundToPurpose ==
  [][\A p, q \in Procs :
       (/\ Issued(p)
        /\ ChallengeOutstanding(p)
        /\ ~req[p].reissued
        /\ req[q].pc = "verify_check" /\ req'[q].pc = "done"
        /\ p \in req[q].after
        /\ req[q].snap.id = req[p].uid
        /\ StrictEq(req[q].otp, req[p].genOtp)
        /\ req[q].purpose \in PurposeInputs
        /\ ~StrictEq(req[q].purpose, IssuedFor(p)))
       => (/\ req'[q].status # 200
           /\ req'[q].token = NoToken)]_vars

\* handler p holds the response of a verify-otp call that found an account and was
\* refused for its challenge (not as AlreadyVerified)
ChallengeRefused(p) ==
  /\ req[p].kind = "verify" /\ req[p].pc = "done"
  /\ req[p].uid # 0
  /\ req[p].status # 200
  /\ req[p].msg # "User already verified"

\* the document handler q read has no challenge (NoChallenge), a challenge other
\* than the presented code (Mismatch) or a challenge that is over (Expired)
ChallengeFails(q) ==
  /\ req[q].snap.id # 0
  /\ ~req[q].snap.isVerified
  /\ \/ Falsy(req[q].snap.otp) \/ Falsy(req[q].snap.otpExpires)
     \/ ~StrictEq(req[q].snap.otp, req[q].otp)
     \/ Expired(req[q].snap.otpExpires, now)

\* C16: a verify-otp call refused as NoChallenge, Mismatch or Expired answers with
\* the status and the message of every other such refusal.
C16_ChallengeRefusalsAlike ==
  [][\A p, q \in Procs :
       (/\ p # q
        /\ ChallengeRefused(p)
        /\ req[q].pc = "verify_check" /\ req'[q].pc = "done"
        /\ ChallengeFails(q))
       => (/\ req'[q].status = req[p].status
           /\ req'[q].msg = req[p].msg)]_vars

\* C17: a register whose body has no e-mail or no password answers 400 and stores
\* no account.
C17_MissingFieldIsValidationError ==
  [][\A p \in Procs :
       (/\ req'[p] # req[p]
        /\ req'[p].kind = "register" /\ req'[p].pc = "done"
        /\ Falsy(req'[p].email) \/ Falsy(req'[p].password))
       => (/\ req'[p].status = 400
           /\ users' = users)]_vars

\* C18: the body of no response of register, verify-otp or login holds an OTP.
C18_NoOtpInResponse ==
  \A p \in Procs :
    (req[p].pc = "done" /\ req[p].kind \in {"register", "verify", "login"})
    => req[p].bodyOtp = Undef

\* the requests on /assets
AssetKinds == {"asset_get", "asset_post", "asset_put", "asset_delete"}

\* handler p answers, in this step, a request on /assets
AssetStep(p) == req'[p] # req[p] /\ req'[p].kind \in AssetKinds /\ req'[p].pc = "done"

\* C19: an asset request without a token answers 401 and one whose token jwt.verify
\* rejects answers 403; such a request reads no asset and leaves the assets
\* collection as it is.
C19_AssetRequestNeedsValidToken ==
  [][\A p \in Procs :
       (AssetStep(p) /\ req'[p].auth.t # "bearer")
       => (/\ req'[p].status = IF req'[p].auth.t = "none" THEN 401 ELSE 403
           /\ req'[p].seen = {}
           /\ assets' = assets)]_vars

C19_Witness ==
  \E p \in Procs :
    /\ req[p].kind = "asset_delete" /\ req[p].pc = "done"
    /\ req[p].auth.t = "rejected" /\ req[p].status = 403
    /\ req[p].aid \in 1..Len(assets)
    /\ assets[req[p].aid].live

\* C20: a request on /assets leaves every user account as it is, whatever its body.
C20_AssetRequestsKeepAccounts ==
  [][(\E p \in Procs : AssetStep(p)) => users' = users]_vars

C20_Witness ==
  \E p \in Procs, i \in 1..Len(assets) :
    /\ req[p].kind = "asset_put" /\ req[p].pc = "done" /\ req[p].status = 200
    /\ req[p].aid = i
    /\ assets[i].userId # req[p].auth.claims.userId
    /\ users = TwoUsers

\* C21: the OTP slot of every account is whole: otp and otpExpires are both set or
\* both unset.
C21_OtpSlotWhole ==
  \A i \in 1..Len(users) : Falsy(users[i].otp) <=> Falsy(users[i].otpExpires)

\* C22: every stored e-mail is its own normal form (trimmed, lower case) and no two
\* accounts have e-mails with the same normal form.
C22_StoredEmailsNormalAndUnique ==
  /\ \A i \in 1..Len(users) : StrictEq(users[i].email, NormalizeEmail(users[i].email))
  /\ \A i, j \in 1..Len(users) :
       StrictEq(NormalizeEmail(users[i].email), NormalizeEmail(users[j].email)) => i = j

\* the code which handler r issued is the outstanding challenge of the account
Outstanding(r) ==
  /\ req[r].kind \in {"register", "login"}
  /\ req[r].pc \in {"reg_mail", "login_mail", "done"}
  /\ ~Falsy(req[r].genOtp)
  /\ req[r].uid \in 1..Len(users)
  /\ StrictEq(users[req[r].uid].otp, req[r].genOtp)
  /\ StrictEq(users[req[r].uid].otpExpires, req[r].genExp)

\* C23: while the code which a request issued is the outstanding challenge of an
\* account, a verify-otp call for that account that presents another code is not
\* accepted: one code per account is acceptable at a time, a code issued before is
\* not accepted once a new one is issued.
C23_OnlyOutstandingCodeAccepted ==
  [][\A r, q \in Procs :
       (/\ r # q
        /\ Outstanding(r)
        /\ req[q].pc = "verify_check" /\ req'[q].pc = "done"
        /\ req[q].snap.id = req[r].uid
        /\ ~StrictEq(req[q].otp, req[r].genOtp))
       => (/\ req'[q].status # 200
           /\ req'[q].token = NoToken)]_vars

\* the number a sequence of decimal digits denotes
RECURSIVE DigitsValue(_)
DigitsValue(s) ==
  IF s = <<>> THEN 0 ELSE 10 * DigitsValue(SubSeq(s, 1, Len(s) - 1)) + s[Len(s)]

\* a string of six decimal digits without a leading zero
SixDigits(c) ==
  /\ c.t = "string"
  /\ Len(c.v) = 6
  /\ \A i \in 1..6 : c.v[i] \in 0..9
  /\ c.v[1] # 0
  /\ DigitsValue(c.v) \in 100000..999999

\* C24: the code a handler generates is a string of six digits that denotes an
\* integer in 100000..999999, and its expiry is the time of the issue plus 600000 ms.
C24_OtpSixDigitsTenMinutes ==
  [][\A p \in Procs :
       (Falsy(req[p].genOtp) /\ ~Falsy(req'[p].genOtp))
       => (/\ SixDigits(req'[p].genOtp)
           /\ req'[p].genExp = DateAt(now + 600000))]_vars

C24_Witness ==
  \E p \in Procs :
    /\ req[p].kind = "login" /\ req[p].pc = "done" /\ req[p].status = 200
    /\ SixDigits(req[p].genOtp)
    /\ req[p].genOtp.v[1] = 9
    /\ now > 0
    /\ req[p].genExp = DateAt(now + 600000)

\* C25: when a verify-otp call has succeeded with a code and no OTP was issued for
\* the account since, another verify-otp call for the account with the same code
\* does not succeed, also when it read the account before the first call saved.
C25_OtpSingleUse ==
  [][\A p, q \in Procs :
       (/\ p # q
        /\ Verified(p)
        /\ ~req[p].reissued
        /\ req[q].pc = "verify_check" /\ req'[q].pc = "done"
        /\ req[q].snap.id = req[p].uid
        /\ StrictEq(req[q].otp, req[p].otp))
       => (/\ req'[q].status # 200
           /\ req'[q].token = NoToken)]_vars

\* handler q holds the 2xx response of a request of the mailer variant that issued
\* an OTP and delivered it
Delivered(q) ==
  /\ variant = Mailer
  /\ Issued(q)

\* C26: when the code that a request issued and delivered is the outstanding
\* challenge of an account, the response of another request whose notification
\* failed leaves it in the slot.
C26_CleanupKeepsDeliveredCode ==
  [][\A p, q \in Procs :
       (/\ p # q
        /\ Delivered(q)
        /\ Outstanding(q)
        /\ req[p].pc \in {"reg_mail", "login_mail"}
        /\ req[p].uid = req[q].uid
        /\ ~StrictEq(req[p].genOtp, req[q].genOtp)
        /\ req'[p].pc = "done" /\ req'[p].status = 500)
       => (/\ users'[req[q].uid].otp = users[req[q].uid].otp
           /\ users'[req[q].uid].otpExpires = users[req[q].uid].otpExpires)]_vars

\* account i exists and is not verified
Unverified(i) == i \in 1..Len(users) /\ ~users[i].isVerified

\* C27: an account that exists with isVerified false, whatever its OTP slot holds,
\* is verified later when the client keeps retrying register, login and verify-otp
\* and the notification is delivered at some attempt.
C27_UnverifiedCanVerify ==
  \A i \in 1..MaxUsers :
    Unverified(i) ~> (i \in 1..Len(users) /\ users[i].isVerified)

\* C28: the token of every response carries the _id of an account that exists and
\* whose stored isVerified is true, from the step that signs it on.
C28_TokenOnlyForVerifiedAccount ==
  \A p \in Procs :
    req[p].token # NoToken
      => (/\ req[p].token.userId \in 1..Len(users)
          /\ users[req[p].token.userId].isVerified)

C28_Witness ==
  \E p, q \in Procs :
    /\ req[p].kind = "verify" /\ req[p].token # NoToken
    /\ req[q].kind = "login" /\ req[q].token # NoToken
    /\ users[req[q].token.userId].isVerified

\* handler q has loaded the account of a verify-otp request and answers in this
\* step, and the answer is not 200
VerifyFails(q) ==
  /\ req[q].pc = "verify_check"
  /\ req'[q].pc = "done"
  /\ req'[q].status # 200

\* C29: the step in which a verify-otp call answers with a failure leaves every
\* account as it was, the code and the expiry of the outstanding challenge included.
C29_FailedVerifyWritesNothing ==
  [][\A q \in Procs : VerifyFails(q) => users' = users]_vars

C29_Witness ==
  \E q \in Procs :
    /\ req[q].kind = "verify" /\ req[q].pc = "done"
    /\ req[q].status = 400
    /\ req[q].uid \in 1..Len(users)
    /\ ~users[req[q].uid].isVerified
    /\ ~Falsy(users[req[q].uid].otp)
    /\ ~StrictEq(req[q].otp, users[req[q].uid].otp)
    /\ ~Expired(users[req[q].uid].otpExpires, now)

\* the answers of register to an email or a username that is taken: the pre-check
\* of both variants and the duplicate key error of the unique indexes
TakenMessages ==
  {"User with this email or username already exists", "Email already registered.",
   "Username already taken.", "E11000 duplicate key error"}

\* handler q answers a register request in this step with one of TakenMessages
RegisterRejected(q) ==
  /\ req'[q].kind = "register"
  /\ req'[q].pc = "done"
  /\ req'[q].msg \in TakenMessages
  /\ \/ req[q].pc = "reg_save"
     \/ /\ req[q].pc \in {"idle", "done"}
        /\ [req'[q] EXCEPT !.after = {}] # [req[q] EXCEPT !.after = {}]

\* C30: the step in which register refuses an email or a username that is taken
\* adds no account and leaves every account as it was.
C30_RejectedRegisterWritesNothing ==
  [][\A q \in Procs : RegisterRejected(q) => users' = users]_vars

C30_Witness ==
  \E p, q \in Procs :
    /\ p # q
    /\ Len(users) = 1
    /\ req[p].kind = "register" /\ req[p].uid = 1 /\ req[p].genOtp = users[1].otp
    /\ ~Falsy(users[1].otp)
    /\ req[q].kind = "register" /\ req[q].pc = "done"
    /\ req[q].msg = "E11000 duplicate key error"

\* C31: no step changes the userId of an asset, so the userId of every asset stays
\* the _id of the account whose POST /assets created it, whatever the body of a
\* PUT /assets/:id holds.
C31_AssetOwnerNeverChanges ==
  [][\A i \in 1..Len(assets) : assets'[i].userId = assets[i].userId]_vars
====
